---------------------------- MODULE Spec2Model ----------------------------
(***************************************************************************)
(* A model of password-store-rs (src/src/lib.rs): the five operations of   *)
(* PasswordStore, the direct transport exec_pass and the framed transport  *)
(* gopass_ipc, with the child process as the environment.                  *)
(*                                                                         *)
(* Text is a sequence of bytes (0..255).  A Rust String/&str is a byte     *)
(* sequence that is valid UTF-8; a Vec<u8> is any byte sequence.           *)
(***************************************************************************)
EXTENDS Integers, Sequences, FiniteSets, TLC

VARIABLES
    pc,        \* position of the current call: see the actions
    op,        \* the call's operation and arguments
    query,     \* gopass_ipc: the json_query argument
    argv,      \* arguments of the spawned process (after the program name)
    stdin,     \* bytes the client has written to the child's input
    stdinOpen, \* the client still holds the write end of the child's input
    child,     \* "none", "running", "exited" (not waited for), "reaped"
    out,       \* what the child has put on its streams, and its exit status
    output,    \* what wait_with_output returned to the client
    num,       \* json_string.len(), the usize that is cast to i32
    spawns,    \* number of processes the current call has spawned
    result,    \* what the call returns
    calls,     \* number of calls already returned
    cmd,       \* exec_pass: the command and args arguments
    store,     \* the entries the password program keeps, outside the client
    last       \* the call that returned last, as its caller saw it

vars == <<pc, op, query, argv, stdin, stdinOpen, child, out, output, num,
          spawns, result, calls, cmd, store, last>>

-----------------------------------------------------------------------------
(* Bounds of the model *)

MaxCalls == 2

-----------------------------------------------------------------------------
(* Text constants of the source, as bytes *)

S_jsonapi     == <<106, 115, 111, 110, 97, 112, 105>>
S_listen      == <<108, 105, 115, 116, 101, 110>>
S_rm          == <<114, 109>>
S_f           == <<45, 102>>
S_type        == <<116, 121, 112, 101>>
S_getLogin    == <<103, 101, 116, 76, 111, 103, 105, 110>>
S_entry       == <<101, 110, 116, 114, 121>>
S_query       == <<113, 117, 101, 114, 121>>
S_create      == <<99, 114, 101, 97, 116, 101>>
S_entry_name  == <<101, 110, 116, 114, 121, 95, 110, 97, 109, 101>>
S_password    == <<112, 97, 115, 115, 119, 111, 114, 100>>
S_generate    == <<103, 101, 110, 101, 114, 97, 116, 101>>
S_length      == <<108, 101, 110, 103, 116, 104>>
S_use_symbols == <<117, 115, 101, 95, 115, 121, 109, 98, 111, 108, 115>>
S_username    == <<117, 115, 101, 114, 110, 97, 109, 101>>

\* a prefix taken one byte short
MSG_SIZE_short == 4 - 1

MSG_SIZE == 4

-----------------------------------------------------------------------------
(* std: str::trim, String::from_utf8 / str::from_utf8, str::rfind *)

\* White_Space code points below 128 (str::trim removes Unicode White_Space)
WhiteSpace == {9, 10, 11, 12, 13, 32}

RECURSIVE TrimStart(_)
TrimStart(s) ==
    IF s # <<>> /\ Head(s) \in WhiteSpace THEN TrimStart(Tail(s)) ELSE s

RECURSIVE TrimEnd(_)
TrimEnd(s) ==
    IF s # <<>> /\ s[Len(s)] \in WhiteSpace
    THEN TrimEnd(SubSeq(s, 1, Len(s) - 1))
    ELSE s

Trim(s) == TrimEnd(TrimStart(s))

IsCont(b) == b >= 128 /\ b <= 191

\* UTF-8 validity: 1-, 2-, 3- and 4-byte forms by lead byte and continuation
\* bytes (the overlong and surrogate sub-ranges of E0, ED, F0, F4 included).
RECURSIVE Utf8Valid(_)
Utf8Valid(s) ==
    IF s = <<>> THEN TRUE
    ELSE LET b == Head(s)
             n == Len(s)
         IN  IF b <= 127 THEN Utf8Valid(Tail(s))
             ELSE IF b >= 194 /\ b <= 223
             THEN n >= 2 /\ IsCont(s[2]) /\ Utf8Valid(SubSeq(s, 3, n))
             ELSE IF b >= 224 /\ b <= 239
             THEN /\ n >= 3
                  /\ IsCont(s[2]) /\ IsCont(s[3])
                  /\ (b = 224 => s[2] >= 160)
                  /\ (b = 237 => s[2] <= 159)
                  /\ Utf8Valid(SubSeq(s, 4, n))
             ELSE IF b >= 240 /\ b <= 244
             THEN /\ n >= 4
                  /\ IsCont(s[2]) /\ IsCont(s[3]) /\ IsCont(s[4])
                  /\ (b = 240 => s[2] >= 144)
                  /\ (b = 244 => s[2] <= 143)
                  /\ Utf8Valid(SubSeq(s, 5, n))
             ELSE FALSE

\* str::rfind('/'): the byte index (from 0) of the last '/', or -1 for None
RECURSIVE RFindSlash(_)
RFindSlash(s) ==
    IF s = <<>> THEN -1
    ELSE IF s[Len(s)] = 47 THEN Len(s) - 1
    ELSE RFindSlash(SubSeq(s, 1, Len(s) - 1))

-----------------------------------------------------------------------------
(* mod chomp (src/chomp.rs is not among the sources): removes one trailing  *)
(* line terminator from the text.                                           *)

chomp(s) ==
    IF s # <<>> /\ s[Len(s)] = 10 THEN SubSeq(s, 1, Len(s) - 1) ELSE s

-----------------------------------------------------------------------------
(* json::JsonValue, with the accessors the source uses *)

JNull    == [t |-> "null"]
JBool(b) == [t |-> "bool", b |-> b]
JNum(n)  == [t |-> "num", n |-> n]
JStr(s)  == [t |-> "str", s |-> s]
JArr(a)  == [t |-> "arr", a |-> a]
JObj(o)  == [t |-> "obj", o |-> o]   \* o: sequence of [k |-> key, v |-> value]

\* Object::insert: replaces the value of a key already there, else appends
ObjInsert(o, k, v) ==
    IF \E i \in 1..Len(o) : o[i].k = k
    THEN [i \in 1..Len(o) |-> IF o[i].k = k THEN [k |-> k, v |-> v] ELSE o[i]]
    ELSE Append(o, [k |-> k, v |-> v])

\* object!{ k1 => v1, ... }: the members in the order written
Object(members) == JObj(members)

\* response["key"]: the member's value; Null for a missing key and for a
\* value that is not an object
Index(v, key) ==
    IF v.t = "obj" /\ \E i \in 1..Len(v.o) : v.o[i].k = key
    THEN v.o[CHOOSE i \in 1..Len(v.o) : v.o[i].k = key].v
    ELSE JNull

\* as_str() / take_string(): Some(text) for a string, None otherwise
IsSome(v)  == v.t = "str"
Unwrap(v)  == v.s

-----------------------------------------------------------------------------
(* json: JsonValue::dump, the compact serialisation of a value *)

HexDigit(d) == IF d < 10 THEN 48 + d ELSE 87 + d

\* one byte of a string, escaped as the json crate writes it
EscapeByte(b) ==
    IF b = 34 THEN <<92, 34>>
    ELSE IF b = 92 THEN <<92, 92>>
    ELSE IF b = 8 THEN <<92, 98>>
    ELSE IF b = 12 THEN <<92, 102>>
    ELSE IF b = 10 THEN <<92, 110>>
    ELSE IF b = 13 THEN <<92, 114>>
    ELSE IF b = 9 THEN <<92, 116>>
    ELSE IF b < 32 THEN <<92, 117, 48, 48, HexDigit(b \div 16), HexDigit(b % 16)>>
    ELSE <<b>>

RECURSIVE EscapeText(_)
EscapeText(s) ==
    IF s = <<>> THEN <<>> ELSE EscapeByte(Head(s)) \o EscapeText(Tail(s))

DumpString(s) == <<34>> \o EscapeText(s) \o <<34>>

RECURSIVE Digits(_)
Digits(n) ==
    IF n < 10 THEN <<48 + n>> ELSE Digits(n \div 10) \o <<48 + (n % 10)>>

DumpNumber(n) == IF n < 0 THEN <<45>> \o Digits(0 - n) ELSE Digits(n)

RECURSIVE Dump(_)
RECURSIVE DumpElems(_)
RECURSIVE DumpMembers(_)

DumpElems(a) ==
    IF a = <<>> THEN <<>>
    ELSE IF Len(a) = 1 THEN Dump(a[1])
    ELSE Dump(a[1]) \o <<44>> \o DumpElems(Tail(a))

DumpMembers(o) ==
    IF o = <<>> THEN <<>>
    ELSE LET m == DumpString(o[1].k) \o <<58>> \o Dump(o[1].v)
         IN  IF Len(o) = 1 THEN m ELSE m \o <<44>> \o DumpMembers(Tail(o))

Dump(v) ==
    CASE v.t = "null" -> <<110, 117, 108, 108>>
      [] v.t = "bool" -> IF v.b THEN <<116, 114, 117, 101>>
                         ELSE <<102, 97, 108, 115, 101>>
      [] v.t = "num"  -> DumpNumber(v.n)
      [] v.t = "str"  -> DumpString(v.s)
      [] v.t = "arr"  -> <<91>> \o DumpElems(v.a) \o <<93>>
      [] v.t = "obj"  -> <<123>> \o DumpMembers(v.o) \o <<125>>

-----------------------------------------------------------------------------
(* json::parse: text to a value or an error.  The grammar covered: strings  *)
(* with the two-character escapes, integers, true/false/null, arrays and    *)
(* objects, with white space between tokens.                                *)

ParseFail == [ok |-> FALSE, v |-> JNull, i |-> 0]
ParseOk(v, i) == [ok |-> TRUE, v |-> v, i |-> i]

JsonWs == {32, 9, 10, 13}
IsDigit(b) == b >= 48 /\ b <= 57

RECURSIVE SkipWs(_, _)
SkipWs(s, i) ==
    IF i <= Len(s) /\ s[i] \in JsonWs THEN SkipWs(s, i + 1) ELSE i

\* the byte an escape character stands for, -1 when it is no escape
Unescape(b) ==
    IF b = 34 \/ b = 92 \/ b = 47 THEN b
    ELSE IF b = 98 THEN 8
    ELSE IF b = 102 THEN 12
    ELSE IF b = 110 THEN 10
    ELSE IF b = 114 THEN 13
    ELSE IF b = 116 THEN 9
    ELSE -1

\* s[i] is the first byte after the opening quote
RECURSIVE ParseString(_, _, _)
ParseString(s, i, acc) ==
    IF i > Len(s) THEN ParseFail
    ELSE IF s[i] = 34 THEN ParseOk(acc, i + 1)
    ELSE IF s[i] = 92
    THEN IF i + 1 <= Len(s) /\ Unescape(s[i + 1]) >= 0
         THEN ParseString(s, i + 2, Append(acc, Unescape(s[i + 1])))
         ELSE ParseFail
    ELSE IF s[i] < 32 THEN ParseFail
    ELSE ParseString(s, i + 1, Append(acc, s[i]))

RECURSIVE ParseDigits(_, _, _)
ParseDigits(s, i, acc) ==
    IF i <= Len(s) /\ IsDigit(s[i])
    THEN ParseDigits(s, i + 1, 10 * acc + (s[i] - 48))
    ELSE ParseOk(acc, i)

ParseNumber(s, i) ==
    IF s[i] = 45
    THEN IF i + 1 <= Len(s) /\ IsDigit(s[i + 1])
         THEN LET r == ParseDigits(s, i + 1, 0) IN ParseOk(JNum(0 - r.v), r.i)
         ELSE ParseFail
    ELSE LET r == ParseDigits(s, i, 0) IN ParseOk(JNum(r.v), r.i)

ParseWord(s, i, word, v) ==
    IF i + Len(word) - 1 <= Len(s) /\ SubSeq(s, i, i + Len(word) - 1) = word
    THEN ParseOk(v, i + Len(word))
    ELSE ParseFail

RECURSIVE ParseValue(_, _)
RECURSIVE ParseElems(_, _, _)
RECURSIVE ParseMembers(_, _, _)

\* s[i0..] starts an element of an array whose earlier elements are acc
ParseElems(s, i0, acc) ==
    LET r == ParseValue(s, i0)
        j == SkipWs(s, r.i)
    IN  IF ~r.ok \/ j > Len(s) THEN ParseFail
        ELSE IF s[j] = 44 THEN ParseElems(s, j + 1, Append(acc, r.v))
        ELSE IF s[j] = 93 THEN ParseOk(JArr(Append(acc, r.v)), j + 1)
        ELSE ParseFail

\* s[i0..] starts a member of an object whose earlier members are acc
ParseMembers(s, i0, acc) ==
    LET i == SkipWs(s, i0)
        k == ParseString(s, i + 1, <<>>)
        c == SkipWs(s, k.i)
        r == ParseValue(s, c + 1)
        j == SkipWs(s, r.i)
    IN  IF i > Len(s) \/ s[i] # 34 THEN ParseFail
        ELSE IF ~k.ok \/ c > Len(s) \/ s[c] # 58 THEN ParseFail
        ELSE IF ~r.ok \/ j > Len(s) THEN ParseFail
        ELSE IF s[j] = 44 THEN ParseMembers(s, j + 1, ObjInsert(acc, k.v, r.v))
        ELSE IF s[j] = 125 THEN ParseOk(JObj(ObjInsert(acc, k.v, r.v)), j + 1)
        ELSE ParseFail

ParseValue(s, i0) ==
    LET i == SkipWs(s, i0)
    IN  IF i > Len(s) THEN ParseFail
        ELSE IF s[i] = 34
        THEN LET r == ParseString(s, i + 1, <<>>)
             IN  IF r.ok THEN ParseOk(JStr(r.v), r.i) ELSE ParseFail
        ELSE IF s[i] = 91
        THEN LET j == SkipWs(s, i + 1)
             IN  IF j <= Len(s) /\ s[j] = 93 THEN ParseOk(JArr(<<>>), j + 1)
                 ELSE ParseElems(s, j, <<>>)
        ELSE IF s[i] = 123
        THEN LET j == SkipWs(s, i + 1)
             IN  IF j <= Len(s) /\ s[j] = 125 THEN ParseOk(JObj(<<>>), j + 1)
                 ELSE ParseMembers(s, j, <<>>)
        ELSE IF s[i] = 45 \/ IsDigit(s[i]) THEN ParseNumber(s, i)
        ELSE IF s[i] = 116 THEN ParseWord(s, i, <<116, 114, 117, 101>>, JBool(TRUE))
        ELSE IF s[i] = 102 THEN ParseWord(s, i, <<102, 97, 108, 115, 101>>, JBool(FALSE))
        ELSE IF s[i] = 110 THEN ParseWord(s, i, <<110, 117, 108, 108>>, JNull)
        ELSE ParseFail

\* json::parse(text): the whole text must be one value
json_parse(s) ==
    LET r == ParseValue(s, 1)
    IN  IF r.ok /\ SkipWs(s, r.i) > Len(s)
        THEN [ok |-> TRUE, v |-> r.v]
        ELSE [ok |-> FALSE, v |-> JNull]

-----------------------------------------------------------------------------
(* Integers of the source.  A usize is kept as [q, r] = [n div 2^16,        *)
(* n mod 2^16]; an i32 is an integer in -2^31 .. 2^31-1.                    *)

USize(n) == [q |-> n \div 65536, r |-> n % 65536]

\* `n as i32`: the low 32 bits of n, read as a signed integer
AsI32(u) ==
    LET qh == u.q % 65536
    IN  IF qh >= 32768 THEN (qh - 65536) * 65536 + u.r ELSE qh * 65536 + u.r

\* num >> k on an i32 is the arithmetic shift (floor division by 2^k), and
\* (x & 0xFF) as u8 is x mod 256
i32_to_bytes(n) ==
    << n % 256,
       (n \div 256) % 256,
       (n \div 65536) % 256,
       (n \div 16777216) % 256 >>

-----------------------------------------------------------------------------
(* Results *)

NoResult == [kind |-> "none", val |-> <<>>]
Ok(v)    == [kind |-> "Ok", val |-> v]
Err(k)   == [kind |-> k, val |-> <<>>]
Pass(s)  == [kind |-> "Pass", val |-> s]
\* an out-of-range slice: the thread panics, no value is returned
Panic    == [kind |-> "panic", val |-> <<>>]

-----------------------------------------------------------------------------
(* Inputs: the arguments of the calls *)

Paths ==
    { <<>>,                        \* ""
      <<32>>,                      \* " "
      <<32, 9, 10>>,               \* " \t\n"
      <<97>>,                      \* "a"
      <<97, 32, 98, 47, 99>>,      \* "a b/c"
      <<113, 34>> }                \* "q\""

Passwords ==
    { <<115, 101, 99, 114, 101, 116>>,   \* "secret"
      <<97, 98, 99>> }                   \* "abc"

Lengths == {-1, 20}

NoOp == [name |-> "none", path |-> <<>>, password |-> <<>>,
         use_symbols |-> FALSE, length |-> 0]

\* exec_pass(command, args) before any call of it
NoCmd == [command |-> <<>>, args |-> <<>>]

Framed == {"get", "get_usernames", "generate", "insert"}

-----------------------------------------------------------------------------
(* The operation layer: validation and the requests *)

\* is_empty() without the trim()
validate_path_notrim(path) == path # <<>>

\* validate_path!: TRUE when the path passes
validate_path(path) == Trim(path) # <<>>

Member(k, v) == [k |-> k, v |-> v]

get_query(path) ==
    Object(<< Member(S_type, JStr(S_getLogin)),
              Member(S_entry, JStr(path)) >>)

get_usernames_query(path) ==
    Object(<< Member(S_type, JStr(S_query)),
              Member(S_query, JStr(path)) >>)

generate_query(path, use_symbols, length) ==
    Object(<< Member(S_type, JStr(S_create)),
              Member(S_entry_name, JStr(path)),
              Member(S_password, JStr(<<>>)),
              Member(S_generate, JBool(TRUE)),
              Member(S_length, JNum(length)),
              Member(S_use_symbols, JBool(use_symbols)) >>)

\* the password left out of the request, as generate leaves it out
insert_query_nopw(path, password) ==
    Object(<< Member(S_type, JStr(S_create)),
              Member(S_entry_name, JStr(path)),
              Member(S_password, JStr(<<>>)) >>)

insert_query(path, password) ==
    Object(<< Member(S_type, JStr(S_create)),
              Member(S_entry_name, JStr(path)),
              Member(S_password, JStr(password)) >>)

\* the test made on the command as given, not trimmed
exec_pass_args_notrim(command, args) ==
    IF command # <<>> THEN <<command>> \o args ELSE args

\* exec_pass: the arguments given to the process
exec_pass_args(command, args) ==
    IF Trim(command) # <<>> THEN <<command>> \o args ELSE args

gopass_ipc_args == <<S_jsonapi, S_listen>>

remove_args(path) == exec_pass_args(S_rm, <<S_f, path>>)

-----------------------------------------------------------------------------
(* The transports, after the child's exit *)

NoOut    == [stdout |-> <<>>, stderr |-> <<>>, status |-> -1]
NoOutput == [captured |-> FALSE, stdout |-> <<>>, stderr |-> <<>>, status |-> -1]
Captured(o) ==
    [captured |-> TRUE, stdout |-> o.stdout, stderr |-> o.stderr,
     status |-> o.status]

\* no call has returned yet
NoLast == [op |-> NoOp, spawns |-> 0, output |-> NoOutput, result |-> NoResult]

exec_pass_decode(o) ==
    IF ~Utf8Valid(o.stderr) THEN Err("FromUtf8")
    ELSE IF o.stderr # <<>> THEN Pass(chomp(o.stderr))
    ELSE IF ~Utf8Valid(o.stdout) THEN Err("FromUtf8")
    ELSE Ok(o.stdout)

\* the error text trimmed first and tested after
gopass_ipc_decode_trimfirst(o) ==
    IF ~Utf8Valid(o.stderr) THEN Err("FromUtf8")
    ELSE IF chomp(o.stderr) # <<>> THEN Pass(chomp(o.stderr))
    ELSE IF Len(o.stdout) < MSG_SIZE THEN Panic
    ELSE LET body == SubSeq(o.stdout, MSG_SIZE + 1, Len(o.stdout))
         IN  IF ~Utf8Valid(body) THEN Err("Utf8")
             ELSE LET r == json_parse(body)
                  IN  IF r.ok THEN Ok(r.v) ELSE Err("Json")

gopass_ipc_decode(o) ==
    IF ~Utf8Valid(o.stderr) THEN Err("FromUtf8")
    ELSE IF o.stderr # <<>> THEN Pass(chomp(o.stderr))
    ELSE IF Len(o.stdout) < MSG_SIZE THEN Panic
    ELSE LET body == SubSeq(o.stdout, MSG_SIZE + 1, Len(o.stdout))
         IN  IF ~Utf8Valid(body) THEN Err("Utf8")
             ELSE LET r == json_parse(body)
                  IN  IF r.ok THEN Ok(r.v) ELSE Err("Json")

-----------------------------------------------------------------------------
(* The operation layer: what each operation makes of the response *)

get_response(response) ==
    IF IsSome(Index(response, S_password))
    THEN Ok(Unwrap(Index(response, S_password)))
    ELSE Err("InvalidOutput")

\* str::find in place of str::rfind: the first '/', or -1
RECURSIVE FindSlash(_, _)
FindSlash(s, i) ==
    IF i > Len(s) THEN -1
    ELSE IF s[i] = 47 THEN i - 1
    ELSE FindSlash(s, i + 1)

username_of_first(username) ==
    LET f == FindSlash(username, 1)
        index == IF f >= 0 THEN f + 1 ELSE 0
    IN  SubSeq(username, index + 1, Len(username))

\* username[index..] with index = rfind('/') + 1, or 0
username_of(username) ==
    LET f == RFindSlash(username)
        index == IF f >= 0 THEN f + 1 ELSE 0
    IN  SubSeq(username, index + 1, Len(username))

\* the loop with `continue` in place of the return: non-strings are skipped
RECURSIVE get_usernames_loop_skip(_, _)
get_usernames_loop_skip(usernames, acc) ==
    IF usernames = <<>> THEN Ok(acc)
    ELSE IF ~IsSome(Head(usernames))
    THEN get_usernames_loop_skip(Tail(usernames), acc)
    ELSE get_usernames_loop_skip(
             Tail(usernames),
             Append(acc, SubSeq(Unwrap(Head(usernames)),
                                RFindSlash(Unwrap(Head(usernames))) + 2,
                                Len(Unwrap(Head(usernames))))))

\* the loop over the array, with the result built so far
RECURSIVE get_usernames_loop(_, _)
get_usernames_loop(usernames, acc) ==
    IF usernames = <<>> THEN Ok(acc)
    ELSE IF ~IsSome(Head(usernames)) THEN Err("InvalidOutput")
    ELSE get_usernames_loop(Tail(usernames),
                            Append(acc, username_of(Unwrap(Head(usernames)))))

get_usernames_response(response) ==
    IF response.t = "arr" THEN get_usernames_loop(response.a, <<>>)
    ELSE Err("InvalidOutput")

\* the test made on `password` in place of `username`
generate_response_pw(response) ==
    IF ~IsSome(Index(response, S_password)) THEN Err("InvalidOutput")
    ELSE Ok(<<>>)

generate_response(response) ==
    IF ~IsSome(Index(response, S_username)) THEN Err("InvalidOutput")
    ELSE Ok(<<>>)

\* an echo is required: a missing `password` member fails too
insert_response_strict(password, response) ==
    IF IsSome(Index(response, S_password))
       /\ password = Unwrap(Index(response, S_password))
    THEN Ok(<<>>)
    ELSE Err("InvalidOutput")

insert_response(password, response) ==
    IF IsSome(Index(response, S_password))
       /\ password # Unwrap(Index(response, S_password))
    THEN Err("InvalidOutput")
    ELSE Ok(<<>>)

\* the `?` after the transport call, then the operation's own check
Finish(o, r) ==
    IF r.kind # "Ok" THEN r
    ELSE CASE o.name = "get"           -> get_response(r.val)
           [] o.name = "get_usernames" -> get_usernames_response(r.val)
           [] o.name = "generate"      -> generate_response(r.val)
           [] o.name = "insert"        -> insert_response(o.password, r.val)
           [] o.name = "remove"        -> Ok(<<>>)

-----------------------------------------------------------------------------
(* The environment: what a child process may leave on its streams *)

\* a response framed the way the child frames it: 4-byte length, then text
Framing(body) == i32_to_bytes(Len(body)) \o body

\* the same text behind 4 bytes that are no length and no UTF-8
Junk(body) == <<255, 254, 0, 7>> \o body

T_abc    == <<97, 98, 99>>
T_secret == <<115, 101, 99, 114, 101, 116>>
T_user1  == <<97, 47, 98, 47, 117, 115, 101, 114, 49>>   \* "a/b/user1"
T_user2  == <<117, 115, 101, 114, 50>>                   \* "user2"

Responses ==
    { Object(<<Member(S_password, JStr(T_abc))>>),
      Object(<<Member(S_password, JStr(T_secret))>>),
      Object(<<Member(S_password, JNum(5))>>),
      Object(<<Member(S_username, JStr(T_user2)),
               Member(S_password, JStr(T_abc))>>),
      Object(<<Member(S_username, JStr(T_user2))>>),
      Object(<<Member(S_username, JNull)>>),
      Object(<<>>),
      JArr(<<JStr(T_user1), JStr(T_user2)>>),
      JArr(<<JStr(<<97, 47>>), JStr(<<47, 120, 47, 121>>)>>),  \* "a/", "/x/y"
      JArr(<<>>),
      JArr(<<JStr(T_user1), JNum(5), JStr(T_user2)>>),
      JArr(<<JNull>>),
      JStr(T_abc),
      JNum(7),
      JNull }

Stdouts ==
    { Framing(Dump(v)) : v \in Responses }
    \cup
    { Junk(Dump(Object(<<Member(S_password, JStr(T_abc))>>))),
      Junk(Dump(JArr(<<JStr(T_user1), JStr(T_user2)>>))),
      \* " {\"password\" : \"abc\"}\n": white space around the tokens
      Framing(<<32, 123, 34, 112, 97, 115, 115, 119, 111, 114, 100, 34, 32,
                58, 32, 34, 97, 98, 99, 34, 125, 10>>),
      Framing(<<123>>),             \* "{": no value
      Framing(<<91, 49, 93, 120>>), \* "[1]x": text after the value
      Framing(<<34, 255, 34>>),     \* a string that is no UTF-8
      Framing(<<>>),                \* the prefix alone
      <<>>,                         \* nothing at all
      <<123, 125>>,                 \* "{}" with no prefix
      <<0, 0, 0>> }                 \* one byte short of a prefix

Stderrs ==
    { <<>>,
      <<10>>,                                        \* "\n"
      <<101, 110, 116, 114, 121, 32, 110, 111, 116, 32, 102, 111, 117, 110,
        100, 10>>,                                   \* "entry not found\n"
      <<101, 114, 114>>,                             \* "err"
      <<101, 10, 10>>,                               \* "e\n\n"
      <<255>> }                                      \* no UTF-8

Statuses == {0, 1}

-----------------------------------------------------------------------------
(* The state machine *)

Init ==
    /\ pc = "idle"
    /\ op = NoOp
    /\ query = JNull
    /\ argv = <<>>
    /\ stdin = <<>>
    /\ stdinOpen = FALSE
    /\ child = "none"
    /\ out = NoOut
    /\ output = NoOutput
    /\ num = USize(0)
    /\ spawns = 0
    /\ result = NoResult
    /\ calls = 0
    /\ cmd = NoCmd
    /\ store = <<>>
    /\ last = NoLast

\* the start of a call: validate_path!, then the request is built
Begin(o, q) ==
    /\ pc = "idle"
    /\ calls < MaxCalls
    /\ op' = o
    /\ IF validate_path(o.path)
       THEN /\ pc' = "start"
            /\ query' = q
            /\ result' = NoResult
       ELSE /\ pc' = "done"
            /\ query' = JNull
            /\ result' = Err("InvalidInput")
    /\ UNCHANGED <<argv, stdin, stdinOpen, child, out, output, num, spawns,
                   calls, cmd, store, last>>

Get(path) ==
    Begin([NoOp EXCEPT !.name = "get", !.path = path], get_query(path))

GetUsernames(path) ==
    Begin([NoOp EXCEPT !.name = "get_usernames", !.path = path],
          get_usernames_query(path))

Generate(path, use_symbols, length) ==
    Begin([NoOp EXCEPT !.name = "generate", !.path = path,
                       !.use_symbols = use_symbols, !.length = length],
          generate_query(path, use_symbols, length))

Insert(path, password) ==
    Begin([NoOp EXCEPT !.name = "insert", !.path = path,
                       !.password = password],
          insert_query(path, password))

Remove(path) ==
    Begin([NoOp EXCEPT !.name = "remove", !.path = path], JNull)

\* Command::new("gopass") ... .spawn()?
Spawn(ok) ==
    /\ pc = "start"
    /\ IF ok
       THEN /\ pc' = "spawned"
            /\ argv' = IF op.name \in Framed THEN gopass_ipc_args
                       ELSE remove_args(op.path)
            /\ child' = "running"
            /\ stdinOpen' = TRUE
            /\ spawns' = spawns + 1
            /\ result' = result
       ELSE /\ pc' = "done"
            /\ result' = Err("Io")
            /\ UNCHANGED <<argv, child, stdinOpen, spawns>>
    /\ UNCHANGED <<op, query, stdin, out, output, num, calls, cmd, store,
                   last>>

\* a write to the child's input: it fails once the child has exited (the
\* read end is closed); the `?` then returns, dropping the child unwaited
WriteFails ==
    /\ child = "exited"
    /\ pc' = "done"
    /\ result' = Err("Io")
    /\ stdinOpen' = FALSE
    /\ UNCHANGED <<op, query, argv, stdin, child, out, output, spawns, calls,
                   cmd, store, last>>

\* stdin.write_all(&i32_to_bytes(json_string.len() as i32))?
WritePrefix ==
    /\ pc = "spawned"
    /\ op.name \in Framed
    /\ num' = USize(Len(Dump(query)))
    /\ \/ /\ child = "running"
          /\ stdin' = stdin \o i32_to_bytes(AsI32(num'))
          /\ pc' = "prefix_written"
          /\ UNCHANGED <<op, query, argv, stdinOpen, child, out, output,
                         spawns, result, calls, cmd, store, last>>
       \/ WriteFails

\* write!(stdin, "{}", json_string)?
WritePayload ==
    /\ pc = "prefix_written"
    /\ num' = num
    /\ \/ /\ child = "running"
          /\ stdin' = stdin \o Dump(query)
          /\ pc' = "written"
          /\ UNCHANGED <<op, query, argv, stdinOpen, child, out, output,
                         spawns, result, calls, cmd, store, last>>
       \/ WriteFails

\* child.wait_with_output(): first the child's input is closed
WaitBegin ==
    /\ \/ pc = "written"
       \/ pc = "spawned" /\ op.name \notin Framed
    /\ pc' = "waiting"
    /\ stdinOpen' = FALSE
    /\ UNCHANGED <<op, query, argv, stdin, child, out, output, num, spawns,
                   result, calls, cmd, store, last>>

\* the child writes its streams and exits
ChildExit(so, se, st) ==
    /\ child = "running"
    /\ child' = "exited"
    /\ out' = [stdout |-> so, stderr |-> se, status |-> st]
    /\ UNCHANGED <<pc, op, query, argv, stdin, stdinOpen, output, num, spawns,
                   result, calls, cmd, store, last>>

\* a failed wait answered by starting the call over
WaitEnd_retry(ok) ==
    /\ pc = "waiting"
    /\ child = "exited"
    /\ IF ok
       THEN /\ pc' = "exited"
            /\ child' = "reaped"
            /\ output' = Captured(out)
            /\ result' = result
       ELSE /\ pc' = "start"
            /\ result' = result
            /\ UNCHANGED <<child, output>>
    /\ UNCHANGED <<op, query, argv, stdin, stdinOpen, out, num, spawns, calls,
                   cmd, store, last>>

\* child.wait_with_output()?: the streams read to their end and the child
\* waited for, or an error of the operating system
WaitEnd(ok) ==
    /\ pc = "waiting"
    /\ child = "exited"
    /\ IF ok
       THEN /\ pc' = "exited"
            /\ child' = "reaped"
            /\ output' = Captured(out)
            /\ result' = result
       ELSE /\ pc' = "done"
            /\ result' = Err("Io")
            /\ UNCHANGED <<child, output>>
    /\ UNCHANGED <<op, query, argv, stdin, stdinOpen, out, num, spawns, calls,
                   cmd, store, last>>

\* the decoding behind a cache: a call with the arguments of the call
\* before it, when that one succeeded, returns what that one returned
Decode_memo ==
    /\ pc = "exited"
    /\ LET r == IF last.op = op /\ last.result.kind = "Ok" THEN last.result
                ELSE Finish(op, IF op.name \in Framed
                                THEN gopass_ipc_decode(output)
                                ELSE exec_pass_decode(output))
       IN  /\ result' = r
           /\ pc' = IF r.kind = "panic" THEN "panicked" ELSE "done"
    /\ UNCHANGED <<op, query, argv, stdin, stdinOpen, child, out, output, num,
                   spawns, calls, cmd, store, last>>

\* the rest of the transport function and of the operation
Decode ==
    /\ pc = "exited"
    /\ LET r == Finish(op, IF op.name \in Framed
                           THEN gopass_ipc_decode(output)
                           ELSE exec_pass_decode(output))
       IN  /\ result' = r
           /\ pc' = IF r.kind = "panic" THEN "panicked" ELSE "done"
    /\ UNCHANGED <<op, query, argv, stdin, stdinOpen, child, out, output, num,
                   spawns, calls, cmd, store, last>>

\* the call has returned; nothing of it is kept
Forget ==
    /\ pc = "done"
    /\ pc' = "idle"
    /\ op' = NoOp
    /\ query' = JNull
    /\ argv' = <<>>
    /\ stdin' = <<>>
    /\ stdinOpen' = FALSE
    /\ child' = "none"
    /\ out' = NoOut
    /\ output' = NoOutput
    /\ num' = USize(0)
    /\ spawns' = 0
    /\ result' = NoResult
    /\ calls' = calls + 1
    /\ UNCHANGED <<cmd, store>>

Return ==
    /\ Forget
    /\ UNCHANGED last

Next ==
    \/ \E path \in Paths : Get(path)
    \/ \E path \in Paths : GetUsernames(path)
    \/ \E path \in Paths, use_symbols \in BOOLEAN, length \in Lengths :
          Generate(path, use_symbols, length)
    \/ \E path \in Paths, password \in Passwords : Insert(path, password)
    \/ \E path \in Paths : Remove(path)
    \/ \E ok \in BOOLEAN : Spawn(ok)
    \/ WritePrefix
    \/ WritePayload
    \/ WaitBegin
    \/ \E so \in Stdouts, se \in Stderrs, st \in Statuses : ChildExit(so, se, st)
    \/ \E ok \in BOOLEAN : WaitEnd(ok)
    \/ Decode
    \/ Return

Spec == Init /\ [][Next]_vars

-----------------------------------------------------------------------------
(* The length prefix on its own: the cast and i32_to_bytes applied to       *)
(* payload lengths over the whole range of the cast, which no payload that  *)
(* is written out byte by byte reaches.                                     *)

FrameHigh == {0, 1, 255, 256, 32767, 32768, 65535, 65536, 65537, 98304}
FrameLow  == {0, 1, 255, 256, 32768, 65535}

InitFrame ==
    /\ pc = "cast"
    /\ num \in [q : FrameHigh, r : FrameLow]
    /\ op = NoOp
    /\ query = JNull
    /\ argv = <<>>
    /\ stdin = <<>>
    /\ stdinOpen = FALSE
    /\ child = "none"
    /\ out = NoOut
    /\ output = NoOutput
    /\ spawns = 0
    /\ result = NoResult
    /\ calls = 0
    /\ cmd = NoCmd
    /\ store = <<>>
    /\ last = NoLast

\* stdin.write_all(&i32_to_bytes(json_string.len() as i32)) for that length
FramePrefix ==
    /\ pc = "cast"
    /\ pc' = "cast_written"
    /\ stdin' = stdin \o i32_to_bytes(AsI32(num))
    /\ UNCHANGED <<op, query, argv, stdinOpen, child, out, output, num,
                   spawns, result, calls, cmd, store, last>>

NextFrame ==
    \/ Next
    \/ FramePrefix

SpecFrame == (Init \/ InitFrame) /\ [][NextFrame]_vars

-----------------------------------------------------------------------------
(* exec_pass on its own: the argument list it builds, for subcommands that  *)
(* are blank and not, where the operations only ever pass "rm".             *)

Commands ==
    { <<>>,                        \* ""
      <<32>>,                      \* " "
      <<9, 10>>,                   \* "\t\n"
      S_rm,                        \* "rm"
      <<32, 108, 115>> }           \* " ls"

ArgLists ==
    { <<>>,
      <<S_f>>,
      <<S_f, <<97>>>>,
      << <<97>>, S_f >>,
      <<S_f, <<97, 32, 98, 47, 99>>, <<>>>> }

InitArgs ==
    /\ pc = "exec_pass"
    /\ cmd \in [command : Commands, args : ArgLists]
    /\ op = NoOp
    /\ query = JNull
    /\ argv = <<>>
    /\ stdin = <<>>
    /\ stdinOpen = FALSE
    /\ child = "none"
    /\ out = NoOut
    /\ output = NoOutput
    /\ num = USize(0)
    /\ spawns = 0
    /\ result = NoResult
    /\ calls = 0
    /\ store = <<>>
    /\ last = NoLast

\* Command::new("pass"), process.arg(command) if it is not blank,
\* .args(args) ... .spawn()
ExecPassSpawn ==
    /\ pc = "exec_pass"
    /\ pc' = "exec_pass_spawned"
    /\ argv' = exec_pass_args(cmd.command, cmd.args)
    /\ child' = "running"
    /\ spawns' = spawns + 1
    /\ UNCHANGED <<op, query, stdin, stdinOpen, out, output, num, result, calls,
                   cmd, store, last>>

NextArgs ==
    \/ Next
    \/ ExecPassSpawn

SpecArgs == (Init \/ InitArgs) /\ [][NextArgs]_vars

-----------------------------------------------------------------------------
(* A store behind the transports: a child that reads its input to the end,  *)
(* keeps what a create request stores, answers getLogin and query from it   *)
(* and deletes on `rm -f`.  It is the store that examples/main.rs drives    *)
(* with insert, get, get_usernames and remove.  Spawning and waiting do not *)
(* fail here, and every return is recorded in `last`.                       *)

StoreHas(s, k) == \E i \in 1..Len(s) : s[i].k = k
StoreGet(s, k) == s[CHOOSE i \in 1..Len(s) : s[i].k = k].v
StoreDel(s, k) == SelectSeq(s, LAMBDA e : e.k # k)
StorePut(s, k, v) == Append(StoreDel(s, k), [k |-> k, v |-> v])

\* the length a 4-byte little-endian prefix stands for, -1 beyond 2^31
FromBytes(b) ==
    IF b[4] > 127 THEN -1
    ELSE b[1] + 256 * b[2] + 65536 * b[3] + 16777216 * b[4]

\* the request the child reads: the prefix, then as many bytes as it says
StubRequest(in) ==
    IF Len(in) < MSG_SIZE THEN [ok |-> FALSE, v |-> JNull]
    ELSE LET n == FromBytes(SubSeq(in, 1, MSG_SIZE))
         IN  IF n < 0 \/ Len(in) < MSG_SIZE + n THEN [ok |-> FALSE, v |-> JNull]
             ELSE json_parse(SubSeq(in, MSG_SIZE + 1, MSG_SIZE + n))

E_not_found ==
    <<101, 110, 116, 114, 121, 32, 110, 111, 116, 32, 102, 111, 117, 110,
      100, 10>>                                      \* "entry not found\n"

StubReply(s, v) ==
    [store |-> s, stdout |-> Framing(Dump(v)), stderr |-> <<>>, status |-> 0]
StubFail(s) ==
    [store |-> s, stdout |-> <<>>, stderr |-> E_not_found, status |-> 1]

\* what the child does with a request; echo: it repeats the password stored
StubAnswer(s, req, echo) ==
    LET type == Index(req, S_type)
        name == Index(req, S_entry_name)
        pw   == IF Index(req, S_generate) = JBool(TRUE) THEN JStr(T_secret)
                ELSE Index(req, S_password)
        entry == Index(req, S_entry)
    IN  IF type = JStr(S_create) /\ IsSome(name) /\ IsSome(pw)
        THEN StubReply(StorePut(s, Unwrap(name), Unwrap(pw)),
                       Object(<<Member(S_username, name)>>
                              \o IF echo THEN <<Member(S_password, pw)>>
                                 ELSE <<>>))
        ELSE IF type = JStr(S_getLogin) /\ IsSome(entry)
                /\ StoreHas(s, Unwrap(entry))
        THEN StubReply(s, Object(<<Member(S_username, entry),
                                   Member(S_password,
                                          JStr(StoreGet(s, Unwrap(entry))))>>))
        ELSE IF type = JStr(S_query)
        THEN StubReply(s, JArr([i \in 1..Len(s) |-> JStr(s[i].k)]))
        ELSE StubFail(s)

\* the child of either transport, once its input is at its end
StubServe(echo) ==
    /\ child = "running"
    /\ ~stdinOpen
    /\ LET req == StubRequest(stdin)
           a == IF argv = gopass_ipc_args
                THEN IF req.ok THEN StubAnswer(store, req.v, echo)
                     ELSE StubFail(store)
                ELSE IF Len(argv) = 3 /\ argv[1] = S_rm /\ argv[2] = S_f
                THEN [store |-> StoreDel(store, argv[3]), stdout |-> <<>>,
                      stderr |-> <<>>, status |-> 0]
                ELSE StubFail(store)
       IN  /\ store' = a.store
           /\ out' = [stdout |-> a.stdout, stderr |-> a.stderr,
                      status |-> a.status]
    /\ child' = "exited"
    /\ UNCHANGED <<pc, op, query, argv, stdin, stdinOpen, output, num, spawns,
                   result, calls, cmd, last>>

\* the call has returned: what its caller saw of it
ReturnNoted ==
    /\ Forget
    /\ last' = [op |-> op, spawns |-> spawns, output |-> output,
                result |-> result]

NextStub ==
    \/ \E path \in Paths : Get(path)
    \/ \E path \in Paths : GetUsernames(path)
    \/ \E path \in Paths, use_symbols \in BOOLEAN, length \in Lengths :
          Generate(path, use_symbols, length)
    \/ \E path \in Paths, password \in Passwords : Insert(path, password)
    \/ \E path \in Paths : Remove(path)
    \/ Spawn(TRUE)
    \/ WritePrefix
    \/ WritePayload
    \/ WaitBegin
    \/ \E echo \in BOOLEAN : StubServe(echo)
    \/ WaitEnd(TRUE)
    \/ Decode
    \/ ReturnNoted

SpecStub == Init /\ [][NextStub]_vars

-----------------------------------------------------------------------------
(* The framed transport with a child that exits only once it has read its   *)
(* input to the end, which it reaches when the client closes its end.  The  *)
(* client is a running thread and the child a scheduled process: a step of  *)
(* either that stays possible is taken.  The caller need not call again.    *)

ChildExitAtEof(so, se, st) ==
    /\ ~stdinOpen
    /\ ChildExit(so, se, st)

\* the steps of the client that call into the operating system
ClientStep ==
    \/ \E ok \in BOOLEAN : Spawn(ok)
    \/ WritePrefix
    \/ WritePayload
    \/ WaitBegin
    \/ \E ok \in BOOLEAN : WaitEnd(ok)
    \/ Return

ChildStep ==
    \E so \in Stdouts, se \in Stderrs, st \in Statuses :
        ChildExitAtEof(so, se, st)

\* WF_vars(Decode), by what it says: Decode is enabled exactly where
\* pc = "exited", and every Decode step leaves there; the decoding is a
\* computation on bytes in memory and comes to an end
DecodeFair == []<>(pc # "exited")

NextEof ==
    \/ \E path \in Paths : Get(path)
    \/ \E path \in Paths : GetUsernames(path)
    \/ \E path \in Paths, use_symbols \in BOOLEAN, length \in Lengths :
          Generate(path, use_symbols, length)
    \/ \E path \in Paths, password \in Passwords : Insert(path, password)
    \/ ClientStep
    \/ Decode
    \/ ChildStep

SpecEof ==
    /\ Init /\ [][NextEof]_vars
    /\ WF_vars(ClientStep) /\ WF_vars(ChildStep) /\ DecodeFair

-----------------------------------------------------------------------------
(* Calls one after the other, each return recorded in `last`: get, insert   *)
(* and remove on a blank and on a valid path, with a child that may leave   *)
(* either of two passwords, nothing, or an error text, at any time.         *)

SeqPaths   == { <<32>>, <<97>> }
SeqStdouts ==
    { Framing(Dump(Object(<<Member(S_password, JStr(T_abc))>>))),
      Framing(Dump(Object(<<Member(S_password, JStr(T_secret))>>))),
      <<>> }
SeqStderrs == { <<>>, <<101, 114, 114>> }              \* "", "err"

NextSeq ==
    \/ \E path \in SeqPaths : Get(path)
    \/ \E path \in SeqPaths, password \in Passwords : Insert(path, password)
    \/ \E path \in SeqPaths : Remove(path)
    \/ \E ok \in BOOLEAN : Spawn(ok)
    \/ WritePrefix
    \/ WritePayload
    \/ WaitBegin
    \/ \E so \in SeqStdouts, se \in SeqStderrs : ChildExit(so, se, 0)
    \/ \E ok \in BOOLEAN : WaitEnd(ok)
    \/ Decode
    \/ ReturnNoted

SpecSeq == Init /\ [][NextSeq]_vars

-----------------------------------------------------------------------------
(* Vocabulary of the properties *)

Blank(path) == \A i \in 1..Len(path) : path[i] \in WhiteSpace

\* the call has ended: it returned a value, or it panicked
Ended == pc \in {"done", "panicked"}

\* the captured output stream without its first 4 bytes
Body == SubSeq(output.stdout, 5, Len(output.stdout))

\* the child's streams were captured, the error stream is empty and the
\* output stream holds 4 bytes and then a text that parses
Decoded ==
    /\ output.captured
    /\ output.stderr = <<>>
    /\ Len(output.stdout) >= 4
    /\ Utf8Valid(Body)
    /\ json_parse(Body).ok

Response == json_parse(Body).v

\* the value has a string member `key` with the text s
HasString(v, key, s) ==
    /\ v.t = "obj"
    /\ \E i \in 1..Len(v.o) : v.o[i].k = key /\ v.o[i].v = JStr(s)

HasSomeString(v, key) ==
    /\ v.t = "obj"
    /\ \E i \in 1..Len(v.o) : v.o[i].k = key /\ v.o[i].v.t = "str"

\* u is what follows the last '/' of e (all of e when it has none)
AfterLastSlash(e, u) ==
    \E k \in 0..Len(e) :
        /\ k > 0 => e[k] = 47
        /\ \A j \in (k + 1)..Len(e) : e[j] # 47
        /\ u = SubSeq(e, k + 1, Len(e))

-----------------------------------------------------------------------------
(* C1: for each operation and every path that is empty or all white space,  *)
(* the call returns InvalidInput and no process is spawned: whenever the    *)
(* current call has a blank path, it has already returned InvalidInput, it  *)
(* has spawned nothing and no child exists.                                 *)

C1_BlankPathNoSpawn ==
    (op.name # "none" /\ Blank(op.path)) =>
        /\ pc = "done"
        /\ result = Err("InvalidInput")
        /\ spawns = 0
        /\ child = "none"
        /\ argv = <<>>

C1_Witness ==
    /\ op.name = "remove"
    /\ op.path = <<32, 9, 10>>
    /\ result = Err("InvalidInput")
    /\ spawns = 0

(* C2: with a valid path, whenever the child has left a non-empty error     *)
(* text on its error stream, the call that has ended has failed with Pass   *)
(* carrying that text without its trailing line terminator, whatever the    *)
(* output stream, the exit status and the order of the client's writes and  *)
(* the child's exit.                                                        *)

C2_StderrAlwaysPass ==
    ( /\ Ended
      /\ child \in {"exited", "reaped"}
      /\ out.stderr # <<>>
      /\ Utf8Valid(out.stderr) )
    => result = Pass(chomp(out.stderr))

(* C3: in both transports a call whose child's streams were captured fails  *)
(* with Pass exactly when the error text is non-empty after its trailing    *)
(* line terminator is removed; an error stream that holds only a line       *)
(* terminator is no failure.                                                *)

C3_PassIffTrimmedNonEmpty ==
    (Ended /\ output.captured /\ Utf8Valid(output.stderr)) =>
        (result.kind = "Pass" <=> chomp(output.stderr) # <<>>)

(* C3 as amended: the test is made on the error text before it is trimmed:  *)
(* the call fails with Pass exactly when the error stream is non-empty; an  *)
(* error stream that holds only a line terminator is a failure too.         *)

C3_PassIffNonEmpty ==
    (Ended /\ output.captured /\ Utf8Valid(output.stderr)) =>
        /\ result.kind = "Pass" <=> output.stderr # <<>>
        /\ output.stderr = <<10>> => result = Pass(<<>>)

\* a framed call whose child wrote "\n" alone on its error stream
C3_Witness ==
    /\ pc = "done"
    /\ op.name \in Framed
    /\ output.captured
    /\ output.stderr = <<10>>
    /\ Len(output.stdout) >= 4
    /\ json_parse(Body).ok
    /\ result = Pass(<<>>)

(* C4: no call panics, and a framed call with an empty error stream and an  *)
(* output stream shorter than 4 bytes returns a typed decoding error.       *)

C4_NoPanic ==
    /\ pc # "panicked"
    /\ result.kind # "panic"
    /\ ( /\ Ended
         /\ op.name \in Framed
         /\ output.captured
         /\ output.stderr = <<>>
         /\ Len(output.stdout) < 4 )
       => result.kind \in {"Utf8", "Json"}

(* C5: a remove call whose child ran and was captured spawned exactly one   *)
(* process, with the arguments rm, -f and the path, and it returned success *)
(* exactly when the error stream is empty, whatever the output stream and   *)
(* the exit status.                                                         *)

C5_RemoveOkIffNoStderr ==
    (Ended /\ op.name = "remove" /\ output.captured) =>
        /\ spawns = 1
        /\ argv = <<S_rm, S_f, op.path>>
        /\ (result = Ok(<<>>) <=> output.stderr = <<>>)

(* C6: when the response is an array of strings, get_usernames returns a    *)
(* sequence of the same length whose i-th element is what follows the last  *)
(* '/' of the i-th response element.                                        *)

C6_UsernamesAfterLastSlash ==
    ( /\ pc = "done"
      /\ op.name = "get_usernames"
      /\ Decoded
      /\ Response.t = "arr"
      /\ \A i \in 1..Len(Response.a) : Response.a[i].t = "str" )
    => /\ result.kind = "Ok"
       /\ Len(result.val) = Len(Response.a)
       /\ \A i \in 1..Len(Response.a) :
             AfterLastSlash(Response.a[i].s, result.val[i])

\* ["a/", "/x/y"] gives ["", "y"]
C6_Witness ==
    /\ pc = "done"
    /\ op.name = "get_usernames"
    /\ Decoded
    /\ Response = JArr(<<JStr(<<97, 47>>), JStr(<<47, 120, 47, 121>>)>>)
    /\ result = Ok(<< <<>>, <<121>> >>)

(* C7: get_usernames fails with InvalidOutput for a response that is no     *)
(* array and for an array with a non-string element at any position; no     *)
(* partial list is returned.                                                *)

C7_UsernamesInvalidOutput ==
    ( /\ pc = "done"
      /\ op.name = "get_usernames"
      /\ Decoded
      /\ \/ Response.t # "arr"
         \/ \E i \in 1..Len(Response.a) : Response.a[i].t # "str" )
    => result = Err("InvalidOutput")

\* a non-string after a string: ["a/b/user1", 5, "user2"]
C7_Witness ==
    /\ pc = "done"
    /\ op.name = "get_usernames"
    /\ Decoded
    /\ Response.t = "arr"
    /\ Len(Response.a) = 3
    /\ Response.a[1].t = "str"
    /\ Response.a[2].t = "num"
    /\ result = Err("InvalidOutput")

(* C8: insert, given a decoded response, fails with InvalidOutput exactly   *)
(* when the response has a string member `password` that differs from the   *)
(* supplied password, and succeeds otherwise.                               *)

C8_InsertEcho ==
    (pc = "done" /\ op.name = "insert" /\ Decoded) =>
        IF HasSomeString(Response, S_password)
           /\ ~HasString(Response, S_password, op.password)
        THEN result = Err("InvalidOutput")
        ELSE result = Ok(<<>>)

\* "secret" supplied, "abc" echoed
C8_Witness ==
    /\ pc = "done"
    /\ op.name = "insert"
    /\ Decoded
    /\ op.password = T_secret
    /\ HasString(Response, S_password, T_abc)
    /\ result = Err("InvalidOutput")

(* C9: get over the framed transport with an empty error stream: the first  *)
(* 4 bytes of the output are discarded whatever they are and the rest is    *)
(* parsed; the call returns the string member `password` of the response    *)
(* and fails with InvalidOutput when there is none.                         *)

C9_GetPassword ==
    (pc = "done" /\ op.name = "get" /\ Decoded) =>
        /\ HasSomeString(Response, S_password) =>
              /\ result.kind = "Ok"
              /\ HasString(Response, S_password, result.val)
        /\ ~HasSomeString(Response, S_password) => result = Err("InvalidOutput")

\* the 4 bytes are no length and no UTF-8
C9_Witness ==
    /\ pc = "done"
    /\ op.name = "get"
    /\ Decoded
    /\ SubSeq(output.stdout, 1, 4) = <<255, 254, 0, 7>>
    /\ result = Ok(T_abc)

(* C10: the bytes written for a request are a 4-byte prefix and then the    *)
(* serialized payload, nothing else, and the prefix read as an unsigned     *)
(* little-endian integer is the payload's length in bytes.                  *)

\* the prefix, read as an unsigned little-endian integer, is the length u
PrefixIs(prefix, u) ==
    /\ Len(prefix) = 4
    /\ prefix[1] + 256 * prefix[2] = u.r
    /\ prefix[3] + 256 * prefix[4] = u.q

C10_PrefixIsLength ==
    /\ (op.name \in Framed /\ pc \in {"written", "waiting", "exited"}) =>
          /\ Len(stdin) = 4 + Len(Dump(query))
          /\ SubSeq(stdin, 5, Len(stdin)) = Dump(query)
          /\ PrefixIs(SubSeq(stdin, 1, 4), USize(Len(Dump(query))))
    /\ pc = "cast_written" => PrefixIs(stdin, num)


(* C10, the part that holds: for a payload shorter than 2^32 bytes the      *)
(* prefix is the payload's length, and for every payload byte k of the      *)
(* prefix is (length >> 8k) mod 256.                                        *)

C10_PrefixBelowRange ==
    /\ (op.name \in Framed /\ pc \in {"written", "waiting", "exited"}) =>
          /\ Len(stdin) = 4 + Len(Dump(query))
          /\ SubSeq(stdin, 5, Len(stdin)) = Dump(query)
          /\ PrefixIs(SubSeq(stdin, 1, 4), USize(Len(Dump(query))))
    /\ (pc = "cast_written" /\ num.q < 65536) => PrefixIs(stdin, num)
    /\ pc = "cast_written" =>
          stdin = << num.r % 256, num.r \div 256,
                     num.q % 256, (num.q \div 256) % 256 >>

-----------------------------------------------------------------------------
(* C11: round trip against the store.  A call of insert with a valid path   *)
(* succeeds, whether the create response repeats the password or leaves the *)
(* `password` member out; and when insert(path, password) has succeeded and *)
(* the next call is get(path), that call returns the password.              *)

\* the response the last call received, when it received one
LastResponse ==
    json_parse(SubSeq(last.output.stdout, 5, Len(last.output.stdout))).v

C11_RoundTrip ==
    /\ (pc = "done" /\ op.name = "insert" /\ ~Blank(op.path)) =>
          result = Ok(<<>>)
    /\ (pc = "done" /\ op.name = "get"
           /\ last.op.name = "insert" /\ last.op.path = op.path
           /\ last.result.kind = "Ok") =>
          result = Ok(last.op.password)

\* get("q\"") has returned "secret" after insert("q\"", "secret"), whose
\* response had no `password` member
C11_Witness ==
    /\ pc = "done"
    /\ op.name = "get"
    /\ op.path = <<113, 34>>
    /\ last.op.name = "insert"
    /\ last.op.path = op.path
    /\ last.op.password = T_secret
    /\ last.result = Ok(<<>>)
    /\ last.output.captured
    /\ Len(last.output.stdout) > 4
    /\ ~HasSomeString(LastResponse, S_password)
    /\ HasSomeString(LastResponse, S_username)
    /\ result = Ok(T_secret)

-----------------------------------------------------------------------------
(* C12: generate with a valid path writes one frame to the one child it     *)
(* spawned, and the frame's payload parses to a request of type "create"    *)
(* for the path, with the empty password, generate true, and length and     *)
(* use_symbols as given; once a response is decoded the call returns Ok if  *)
(* the response has a string member `username` and InvalidOutput if not.    *)

\* the payload the client has written behind the prefix, parsed
Request == json_parse(SubSeq(stdin, 5, Len(stdin)))

C12_Generate ==
    /\ (op.name = "generate" /\ pc \in {"written", "waiting", "exited"}) =>
          /\ spawns = 1
          /\ Len(stdin) >= 4
          /\ FromBytes(SubSeq(stdin, 1, 4)) = Len(stdin) - 4
          /\ Request.ok
          /\ Request.v.t = "obj"
          /\ Len(Request.v.o) = 6
          /\ Index(Request.v, S_type) = JStr(S_create)
          /\ Index(Request.v, S_entry_name) = JStr(op.path)
          /\ Index(Request.v, S_password) = JStr(<<>>)
          /\ Index(Request.v, S_generate) = JBool(TRUE)
          /\ Index(Request.v, S_length) = JNum(op.length)
          /\ Index(Request.v, S_use_symbols) = JBool(op.use_symbols)
    /\ (op.name = "generate" /\ Ended /\ Decoded) =>
          IF HasSomeString(Response, S_username)
          THEN result = Ok(<<>>)
          ELSE result = Err("InvalidOutput")

\* generate("a b/c", true, -1) has returned Ok on a response that has a
\* `username` and no `password`
C12_Witness ==
    /\ pc = "done"
    /\ op.name = "generate"
    /\ op.path = <<97, 32, 98, 47, 99>>
    /\ op.use_symbols
    /\ op.length = -1
    /\ Decoded
    /\ Response = Object(<<Member(S_username, JStr(T_user2))>>)
    /\ result = Ok(<<>>)

-----------------------------------------------------------------------------
(* C13: a call that passes validation goes through its steps in one order,  *)
(* start, spawned, request written, child exited and streams captured,      *)
(* decoded, and stops at the first failure: every step moves the call       *)
(* forward (only the return leads back to idle), a call never has more than *)
(* one child and has exactly one from the spawn on, the streams are         *)
(* captured only from a child that has exited, and nothing but              *)
(* InvalidInput and Io is returned without captured streams.                *)

Rank(p) ==
    CASE p = "idle"           -> 0
      [] p = "start"          -> 1
      [] p = "spawned"        -> 2
      [] p = "prefix_written" -> 3
      [] p = "written"        -> 4
      [] p = "waiting"        -> 5
      [] p = "exited"         -> 6
      [] p = "done"           -> 7
      [] p = "panicked"       -> 7

C13_StepsInOrder ==
    pc' # pc => \/ Rank(pc') > Rank(pc)
                \/ pc = "done" /\ pc' = "idle"

C13_OneChild ==
    /\ spawns <= 1
    /\ pc \in {"idle", "start"} => spawns = 0 /\ child = "none"
    /\ pc \in {"spawned", "prefix_written", "written", "waiting", "exited",
                "panicked"} => spawns = 1
    /\ child # "none" <=> spawns = 1
    /\ output.captured =>
          /\ child = "reaped"
          /\ out.status # -1
          /\ output = Captured(out)
          /\ pc \in {"exited", "done", "panicked"}
    /\ (Ended /\ ~output.captured) => result.kind \in {"InvalidInput", "Io"}
    /\ (pc = "done" /\ spawns = 0) =>
          result.kind = IF Blank(op.path) THEN "InvalidInput" ELSE "Io"

C13_Order == []C13_OneChild /\ [][C13_StepsInOrder]_vars

\* a get that went through every step and returned a password
C13_Witness ==
    /\ pc = "done"
    /\ op.name = "get"
    /\ spawns = 1
    /\ child = "reaped"
    /\ output.captured
    /\ Len(stdin) = 4 + Len(Dump(query))
    /\ result = Ok(T_abc)

-----------------------------------------------------------------------------
(* C14: when a call that spawned a child returns, by whatever path, the     *)
(* child has been waited for and the client holds none of its streams open. *)

C14_ChildWaited ==
    (pc = "done" /\ spawns = 1) => child = "reaped" /\ ~stdinOpen

(* C14, the part that holds: the client's end of the child's input is       *)
(* closed on every return, and a call whose writes and wait succeeded       *)
(* returns with the child waited for and its streams read to the end.       *)

C14_WaitedUnlessIo ==
    /\ pc = "done" => ~stdinOpen
    /\ (pc = "done" /\ spawns = 1 /\ result.kind # "Io") =>
          child = "reaped" /\ output = Captured(out)

-----------------------------------------------------------------------------
(* C15: in the framed transport, with a child that exits once its input is  *)
(* at its end, the client never waits for the exit with the child's input   *)
(* still open, and every call that has started eventually returns, with a   *)
(* result or an error.                                                      *)

C15_NoWaitHoldingInput ==
    pc = "waiting" =>
        /\ ~stdinOpen
        /\ stdin = Framing(Dump(query))

C15_ClosesThenReturns ==
    /\ []C15_NoWaitHoldingInput
    /\ (pc = "start") ~> (pc = "done")

(* C15, the part that holds: the input is closed before the wait, and every *)
(* call that has started eventually ends, by a return or by a panic.        *)

C15_ClosesThenEnds ==
    /\ []C15_NoWaitHoldingInput
    /\ (pc = "start") ~> Ended

-----------------------------------------------------------------------------
(* C16: a call of the framed transport with a valid path returns the first  *)
(* failure kind that applies, in the order Io (the spawn, a write or the    *)
(* wait failed: no streams were captured), FromUtf8 (the error stream is no *)
(* UTF-8), Pass (the error stream is not empty), Utf8 (what follows the     *)
(* first 4 bytes of the output is no UTF-8), Json (it does not parse); when *)
(* none applies the call returns Ok or InvalidOutput, and InvalidOutput is  *)
(* returned only then.                                                      *)

\* what is left of the captured output after skipping 4 bytes
Skipped ==
    IF Len(output.stdout) >= 4 THEN SubSeq(output.stdout, 5, Len(output.stdout))
    ELSE <<>>

FirstFailure ==
    IF ~output.captured THEN "Io"
    ELSE IF ~Utf8Valid(output.stderr) THEN "FromUtf8"
    ELSE IF output.stderr # <<>> THEN "Pass"
    ELSE IF ~Utf8Valid(Skipped) THEN "Utf8"
    ELSE IF ~json_parse(Skipped).ok THEN "Json"
    ELSE "none"

C16_FailureOrder ==
    (Ended /\ op.name \in Framed /\ ~Blank(op.path)) =>
        /\ FirstFailure # "none" => result.kind = FirstFailure
        /\ FirstFailure = "none" => result.kind \in {"Ok", "InvalidOutput"}

(* C16, the part that holds: the same order, for every call but the one     *)
(* whose output has fewer than 4 bytes behind an empty error stream.        *)

C16_OrderFromFourBytes ==
    (Ended /\ op.name \in Framed /\ ~Blank(op.path)
       /\ (FirstFailure \in {"Utf8", "Json", "none"} =>
              Len(output.stdout) >= 4)) =>
        /\ FirstFailure # "none" => result.kind = FirstFailure
        /\ FirstFailure = "none" => result.kind \in {"Ok", "InvalidOutput"}

-----------------------------------------------------------------------------
(* C17: whatever calls came before, what a call returns is a function of    *)
(* its arguments and of the outcome of its one process (whether it was      *)
(* spawned, and the streams captured from it, if any), and of nothing else; *)
(* so a call with the arguments and the process outcome of the call before  *)
(* it returns what that call returned.                                      *)

\* the result by the arguments o, the number n of processes spawned and the
\* captured streams x
ResultOf(o, n, x) ==
    IF Blank(o.path) THEN Err("InvalidInput")
    ELSE IF n = 0 \/ ~x.captured THEN Err("Io")
    ELSE IF o.name = "remove"
    THEN IF ~Utf8Valid(x.stderr) \/ (x.stderr = <<>> /\ ~Utf8Valid(x.stdout))
         THEN Err("FromUtf8")
         ELSE IF x.stderr # <<>> THEN Pass(chomp(x.stderr)) ELSE Ok(<<>>)
    ELSE Finish(o, gopass_ipc_decode(x))

C17_Independent ==
    /\ pc = "done" => result = ResultOf(op, spawns, output)
    /\ (pc = "done" /\ last.op = op /\ last.spawns = spawns
           /\ last.output = output) => result = last.result

\* get("a") has returned a password right after a get("a") that failed
\* with the child's error text
C17_Witness ==
    /\ pc = "done"
    /\ op.name = "get"
    /\ op.path = <<97>>
    /\ last.op = op
    /\ last.result = Pass(<<101, 114, 114>>)
    /\ result = Ok(T_secret)

-----------------------------------------------------------------------------
(* C18: the argument list exec_pass gives the process is the subcommand     *)
(* followed by the positional arguments in their order when the subcommand  *)
(* has a byte that is no white space, and the positional arguments alone    *)
(* when it is empty or all white space; remove gives "rm", "-f", path.      *)

C18_ExecPassArgs ==
    /\ pc = "exec_pass_spawned" =>
          /\ ~Blank(cmd.command) => argv = <<cmd.command>> \o cmd.args
          /\ Blank(cmd.command) => argv = cmd.args
    /\ (op.name = "remove" /\ spawns = 1) => argv = <<S_rm, S_f, op.path>>

\* exec_pass(" ", ["-f", "a"]) has spawned the process with "-f", "a"
C18_Witness ==
    /\ pc = "exec_pass_spawned"
    /\ cmd.command = <<32>>
    /\ cmd.args = <<S_f, <<97>>>>
    /\ argv = <<S_f, <<97>>>>
    /\ spawns = 1

=============================================================================
